---- MODULE Spec2Model ----
(***************************************************************************)
(* Slot booking and appointment lifecycle of the school appointment        *)
(* system (backend/app).  The database tables available_slots and          *)
(* appointments are the shared state; every request handler and every      *)
(* scheduled job runs in a worker with its own SQLAlchemy session, and a    *)
(* worker's step is one database round trip (a query, or a commit) together *)
(* with the local computation that follows it.  Workers are the processes   *)
(* that serve requests (the API server processes and the Celery workers),   *)
(* so steps of different workers interleave freely.                         *)
(***************************************************************************)
EXTENDS Integers, Sequences, FiniteSets

\* ---------------------------------------------------------------- bounds
NumWorkers == 2
NumSlots == 2
MaxAppointments == 3
\* The calendar: time units in a day, and the number of stored slots up to
\* which a request that creates slots is accepted.
DayLen == 5
MaxStored == 2
\* Notification records up to which a dispatch or a retry is accepted.
MaxNotifs == 4

Workers == 1..NumWorkers
SlotIds == 1..NumSlots

\* ------------------------------------------------------------- constants
\* tasks/notifications.py: @celery_app.task(..., max_retries=3)
MaxRetries == 3
\* core/constants.py AppointmentStatus
PENDING == "pending"
CONFIRMED == "confirmed"
CANCELLED == "cancelled"
COMPLETED == "completed"
NO_SHOW == "no_show"
AppointmentStatus == {PENDING, CONFIRMED, CANCELLED, COMPLETED, NO_SHOW}

\* Users with the parent role that call the API.  "u0" has no Parent row.
ParentUsers == {"R1", "R2", "u0"}
Parents == {"R1", "R2"}
Teachers == {"T1", "T2"}

\* teacher_id of the slots present at start-up: slot s belongs to T1 when s
\* is odd and to T2 when s is even.
SlotTeacher(s) == IF s % 2 = 1 THEN "T1" ELSE "T2"

\* Outcomes of the delivery transport for one dispatch: the e-mail is
\* delivered, the transport reports failure, or the dispatch raises.
DeliveryOutcomes == {"sent", "failed", "raised"}

\* HTTP outcomes of a request.
OK == "ok"
NOT_FOUND == "not_found"
CONFLICT == "conflict"
BAD_REQUEST == "bad_request"
SERVER_ERROR == "server_error"
FORBIDDEN == "forbidden"

VARIABLES
    slots,      \* table available_slots: id -> row
    appts,      \* table appointments: sequence of rows, the index is the id
    pc,         \* worker -> its position in the handler it runs
    req,        \* worker -> the request it serves (or served last)
    view,       \* worker -> what its session has loaded
    result,     \* worker -> outcome of the request it served last
    delivery    \* worker -> outcome of the notification dispatch of that request

\* The state that the booking and lifecycle handlers above all leave alone:
\* it belongs to the metadata update, and is written by its handler only.
VARIABLES
    meta,       \* appointment id -> the meeting mode and notes stored with it
    store,      \* table available_slots with the times of the slots: set of rows
    cal,        \* the calendar request in progress: position, outcome, conflict
    gen,        \* the loop of the bulk generation: pattern, day, time, created ids
    notifs,     \* table notifications: sequence of rows, the index is the id
    task,       \* the send_email_async message of the Celery queue
    rt,         \* the retry request and its background task
    sending,    \* the delivery in progress in NotificationIntegrationService
    job,        \* the run of the reminder scan
    reminded,   \* appointment ids handed to send_appointment_reminder.delay
    profiles,   \* tables parents and teachers: the ids of the rows present
    removed     \* ids of the rows of appointments that were deleted

calendar == <<store, cal, gen>>
notification == <<notifs, task, rt, sending>>
reminder == <<job, reminded>>
people == <<profiles, removed>>
aux == <<meta, calendar, notification, reminder, people>>

vars == <<slots, appts, pc, req, view, result, delivery, meta, store, cal, gen,
          notifs, task, rt, sending, job, reminded, profiles, removed>>
booking == <<slots, appts, pc, req, view, result, delivery, meta, people>>
db == <<slots, appts>>

NoReq == [op |-> "none", user |-> "none", slot |-> 0, appt |-> 0, target |-> "none",
          data |-> "none"]
NoView == [status |-> "none", is_booked |-> FALSE, selected |-> {}]

\* ------------------------------------------------------------ the tables
Exists(s) == s \in SlotIds /\ slots[s].exists

\* parent.get_by_user_id: the Parent profile of a user, "none" when absent.
\* The user of a parent is named as the parent.
get_by_user_id(user) == IF user \in profiles.parents THEN user ELSE "none"

\* appointment.get: appts keeps every row that was ever inserted, so that the
\* ids stay what they were; the rows of the table are those not removed.
Stored(a) == a \in DOMAIN appts /\ a \notin removed

\* crud/appointment.py get_by_slot: the appointments that reference slot s
\* (the handler only asks whether there is one).
get_by_slot(s) == {a \in DOMAIN appts : Stored(a) /\ appts[a].slot = s}

\* models/appointment.py: slot_id is declared unique=True; an INSERT of a
\* second row with the same slot_id raises IntegrityError.
UniqueSlotIdMutant(s) == TRUE
UniqueSlotId(s) == get_by_slot(s) = {}

\* schemas/AppointmentCreate + Appointment defaults: the row that
\* appointment.create inserts.
NewAppointment(parent, teacher, s) ==
    [parent |-> parent, teacher |-> teacher, slot |-> s, status |-> PENDING]

TypeOK ==
    /\ slots \in [SlotIds -> [exists : BOOLEAN, is_booked : BOOLEAN, teacher : Teachers]]
    /\ appts \in Seq([parent : Parents, teacher : Teachers, slot : SlotIds,
                      status : AppointmentStatus])
    /\ Len(appts) <= MaxAppointments

\* models/appointment.py meeting_mode and notes; schemas AppointmentUpdate.
MeetingModes == {"online", "face_to_face"}
Notes == {"n0", "n1"}

\* What a booking stores with its appointment (the booking requests of the
\* model all carry the same mode and notes).
BookedMeta == [mode |-> "online", notes |-> "n0"]

InitAux ==
    /\ meta = [a \in 1..MaxAppointments |-> BookedMeta]
    /\ store = {}
    /\ cal = [pc |-> "idle", result |-> "none", conflict |-> "unchecked", check |-> <<>>]
    /\ gen = [pattern |-> <<>>, di |-> 0, cur |-> 0, created |-> {}]
    /\ notifs = <<>>
    /\ task = [state |-> "none", notif |-> 0, retries |-> 0, attempts |-> 0,
               failed |-> FALSE]
    /\ rt = [pc |-> "idle", notif |-> 0, result |-> "none", delivered |-> "none"]
    /\ sending = [pc |-> "idle", appt |-> 0, type |-> "none", to |-> "none",
                  outcome |-> "none", notif |-> 0]
    /\ job = [pc |-> "idle", due |-> {}, result |-> "none"]
    /\ reminded = {}
    /\ profiles = [parents |-> Parents, teachers |-> Teachers]
    /\ removed = {}

\* The workers have served nothing yet.
InitWorkers ==
    /\ pc = [w \in Workers |-> "idle"]
    /\ req = [w \in Workers |-> NoReq]
    /\ view = [w \in Workers |-> NoView]
    /\ result = [w \in Workers |-> "none"]
    /\ delivery = [w \in Workers |-> "none"]

\* The database after the slots were created and before any booking.
Init ==
    /\ slots = [s \in SlotIds |->
                   [exists |-> TRUE, is_booked |-> FALSE, teacher |-> SlotTeacher(s)]]
    /\ appts = <<>>
    /\ InitWorkers
    /\ InitAux

\* The handler of a request ends with `outcome`; the worker holds the request
\* and its outcome until the response is sent.
Finish(w, outcome) ==
    /\ pc' = [pc EXCEPT ![w] = "done"]
    /\ result' = [result EXCEPT ![w] = outcome]
    /\ view' = [view EXCEPT ![w] = NoView]

\* The handler goes on to its next step with `loaded` in its session.
Goto(w, label, loaded) ==
    /\ pc' = [pc EXCEPT ![w] = label]
    /\ result' = [result EXCEPT ![w] = "none"]
    /\ view' = [view EXCEPT ![w] = loaded]

\* The response is sent and the session is closed: the worker is free for the
\* next request.
respond(w) ==
    /\ pc[w] = "done"
    /\ UNCHANGED aux
    /\ pc' = [pc EXCEPT ![w] = "idle"]
    /\ req' = [req EXCEPT ![w] = NoReq]
    /\ result' = [result EXCEPT ![w] = "none"]
    /\ delivery' = [delivery EXCEPT ![w] = "none"]
    /\ UNCHANGED <<db, view>>

\* ------------------------------------------------- POST /appointments/book
\* Lines 97-108: parent profile, slot.get, the is_booked test on the loaded row.
book_load(w, user, s) ==
    /\ pc[w] = "idle"
    /\ UNCHANGED aux
    /\ req' = [req EXCEPT ![w] = [NoReq EXCEPT !.op = "book", !.user = user, !.slot = s]]
    /\ UNCHANGED <<db, delivery>>
    /\ IF get_by_user_id(user) = "none" THEN Finish(w, NOT_FOUND)
       ELSE IF ~Exists(s) THEN Finish(w, NOT_FOUND)
       ELSE IF slots[s].is_booked THEN Finish(w, CONFLICT)
       ELSE Goto(w, "book_check", NoView)

\* Lines 110-113: appointment.get_by_slot.
book_check_existing(w) ==
    /\ pc[w] = "book_check"
    /\ UNCHANGED aux
    /\ UNCHANGED <<db, req, delivery>>
    /\ IF get_by_slot(req[w].slot) # {} THEN Finish(w, CONFLICT)
       ELSE Goto(w, "book_create", NoView)

\* Whether the database enforces the foreign key appointments.slot_id ->
\* available_slots.id depends on the engine behind DATABASE_URL (PostgreSQL
\* does, SQLite does not unless asked to); both are outcomes of the build.
ForeignKeysEnforced == BOOLEAN

\* Lines 115-124: appointment.create inserts the row and commits.  An
\* IntegrityError (the unique slot_id, or the foreign key when the slot row
\* was deleted in between) is not caught: general_exception_handler answers 500.
book_create(w) ==
    /\ pc[w] = "book_create"
    /\ UNCHANGED aux
    /\ Len(appts) < MaxAppointments
    /\ UNCHANGED <<slots, delivery>>
    /\ LET s == req[w].slot
           row == NewAppointment(get_by_user_id(req[w].user), slots[s].teacher, s)
       IN \E fk \in ForeignKeysEnforced :
            IF ~UniqueSlotId(s) \/ (fk /\ ~Exists(s))
            THEN /\ Finish(w, SERVER_ERROR)
                 /\ UNCHANGED <<appts, req>>
            ELSE /\ appts' = Append(appts, row)
                 /\ req' = [req EXCEPT ![w].appt = Len(appts) + 1]
                 /\ Goto(w, "book_flip", NoView)

\* crud/slot.py mark_as_booked: the row is read again (the commit of the
\* insert expired it), set to booked when it exists and is not booked, and
\* committed.  The handler ignores the return value.
mark_as_bookedMutant(s) == slots
mark_as_booked(s) ==
    IF Exists(s) /\ ~slots[s].is_booked
    THEN [slots EXCEPT ![s].is_booked = TRUE]
    ELSE slots

\* Lines 126-130.
book_mark_as_booked(w) ==
    /\ pc[w] = "book_flip"
    /\ UNCHANGED aux
    /\ slots' = mark_as_booked(req[w].slot)
    /\ UNCHANGED <<appts, req, delivery>>
    /\ Goto(w, "book_notify", NoView)

\* Lines 132-140 and 282-289: the dispatch is wrapped in try/except Exception
\* (and NotificationIntegrationService catches and returns False before
\* that), so the handler answers success whatever the dispatch did.
ResponseAfterDispatchMutant(d) == IF d = "raised" THEN SERVER_ERROR ELSE OK
ResponseAfterDispatch(d) == OK

book_notify(w) ==
    /\ pc[w] = "book_notify"
    /\ UNCHANGED aux
    /\ UNCHANGED <<db, req>>
    /\ \E d \in DeliveryOutcomes :
         /\ delivery' = [delivery EXCEPT ![w] = d]
         /\ Finish(w, ResponseAfterDispatch(d))

book_appointment(w) ==
    \/ \E user \in ParentUsers, s \in SlotIds : book_load(w, user, s)
    \/ book_check_existing(w)
    \/ book_create(w)
    \/ book_mark_as_booked(w)
    \/ book_notify(w)

\* The appointment ids a request may name: every stored id, and one id that
\* is not stored.
RequestedIds == 1..(Len(appts) + 1)

\* ------------------------------------------------ crud/appointment.py
\* The conditions under which each transition method writes; `status` is the
\* status of the row as the worker's session holds it.
confirm_appointment(status) == status = PENDING

complete_appointmentMutant(status) == status = CONFIRMED
complete_appointment(status) == status \in {PENDING, CONFIRMED}

mark_no_show(status) == status \in {PENDING, CONFIRMED}

crud_cancel_appointment(status) == status # CANCELLED

\* update_status writes whatever status it is given.
update_status(status) == TRUE

\* update_appointment_status lines 222-233: the method chosen for a target.
TransitionAccepted(target, status) ==
    CASE target = CONFIRMED -> confirm_appointment(status)
      [] target = COMPLETED -> complete_appointment(status)
      [] target = NO_SHOW -> mark_no_show(status)
      [] target = CANCELLED -> crud_cancel_appointment(status)
      [] OTHER -> update_status(status)

\* The UPDATE the commit sends for appointment a: the unit of work writes the
\* status column only when the new value differs from the loaded one.
SetStatus(a, loaded, target) ==
    IF loaded = target THEN appts ELSE [appts EXCEPT ![a].status = target]

\* crud/slot.py mark_as_available: clears the flag when the slot row the
\* session holds is booked; `booked` is is_booked as the session holds it.
mark_as_availableMutant(s, booked) ==
    [t \in SlotIds |-> [slots[t] EXCEPT !.is_booked = FALSE]]
mark_as_available(s, booked) ==
    IF Exists(s) /\ booked
    THEN [slots EXCEPT ![s].is_booked = FALSE]
    ELSE slots

\* ------------------------------------- PUT /appointments/{id}/status
\* Lines 211-214: appointment.get loads the row into the session.
update_appointment_status_read(w, a, target) ==
    /\ pc[w] = "idle"
    /\ UNCHANGED aux
    /\ req' = [req EXCEPT ![w] = [NoReq EXCEPT !.op = "status", !.appt = a, !.target = target]]
    /\ UNCHANGED <<db, delivery>>
    /\ IF ~Stored(a)
       THEN Finish(w, NOT_FOUND)
       ELSE Goto(w, "status_write", [NoView EXCEPT !.status = appts[a].status])

\* Lines 222-238: the crud method tests the row already in the session (its
\* own get returns that object), sets the status and commits; cancelling also
\* reads the slot row and clears its flag in the same commit.
update_appointment_status_write(w) ==
    /\ pc[w] = "status_write"
    /\ UNCHANGED aux
    /\ UNCHANGED <<req, delivery>>
    /\ LET a == req[w].appt
           target == req[w].target
           s == appts[a].slot
       IN IF TransitionAccepted(target, view[w].status)
          THEN /\ appts' = SetStatus(a, view[w].status, target)
               /\ slots' = IF target = CANCELLED
                           THEN mark_as_available(s, slots[s].is_booked)
                           ELSE slots
               /\ Finish(w, OK)
          ELSE /\ UNCHANGED db
               /\ Finish(w, BAD_REQUEST)

update_appointment_status(w) ==
    \/ \E a \in RequestedIds, target \in AppointmentStatus :
          update_appointment_status_read(w, a, target)
    \/ update_appointment_status_write(w)

\* ------------------------------------------ DELETE /appointments/{id}
\* Lines 249-275: appointment.get, the status test, and get_with_relations,
\* which loads the slot row into the session.
cancel_appointment_read(w, a) ==
    /\ pc[w] = "idle"
    /\ UNCHANGED aux
    /\ req' = [req EXCEPT ![w] = [NoReq EXCEPT !.op = "cancel", !.appt = a, !.target = CANCELLED]]
    /\ UNCHANGED <<db, delivery>>
    /\ IF ~Stored(a) THEN Finish(w, NOT_FOUND)
       ELSE IF appts[a].status \in {CANCELLED, COMPLETED} THEN Finish(w, BAD_REQUEST)
       ELSE Goto(w, "cancel_write",
                 [NoView EXCEPT !.status = appts[a].status,
                                !.is_booked = Exists(appts[a].slot)
                                              /\ slots[appts[a].slot].is_booked])

\* Lines 277-280: crud cancel_appointment on the rows the session holds.  An
\* UPDATE of a slot row that is gone raises (StaleDataError) and nothing is
\* committed.
cancel_appointment_write(w) ==
    /\ pc[w] = "cancel_write"
    /\ UNCHANGED aux
    /\ UNCHANGED <<req, delivery>>
    /\ LET a == req[w].appt
           s == appts[a].slot
       IN IF ~crud_cancel_appointment(view[w].status)
             \/ (view[w].is_booked /\ ~Exists(s))
          THEN /\ UNCHANGED db
               /\ Finish(w, SERVER_ERROR)
          ELSE /\ appts' = SetStatus(a, view[w].status, CANCELLED)
               /\ slots' = mark_as_available(s, view[w].is_booked)
               /\ Goto(w, "cancel_notify", NoView)

\* Lines 282-289.
cancel_appointment_notify(w) ==
    /\ pc[w] = "cancel_notify"
    /\ UNCHANGED aux
    /\ UNCHANGED <<db, req>>
    /\ \E d \in DeliveryOutcomes :
         /\ delivery' = [delivery EXCEPT ![w] = d]
         /\ Finish(w, ResponseAfterDispatch(d))

cancel_appointment(w) ==
    \/ \E a \in RequestedIds : cancel_appointment_read(w, a)
    \/ cancel_appointment_write(w)
    \/ cancel_appointment_notify(w)

\* ---------------------------------------------------- DELETE /slots/{id}
\* api/routes/slots.py lines 231-247: slot.get and the is_booked test.
delete_slot_read(w, s) ==
    /\ pc[w] = "idle"
    /\ UNCHANGED aux
    /\ req' = [req EXCEPT ![w] = [NoReq EXCEPT !.op = "delete_slot", !.slot = s]]
    /\ UNCHANGED <<db, delivery>>
    /\ IF ~Exists(s) THEN Finish(w, NOT_FOUND)
       ELSE IF slots[s].is_booked THEN Finish(w, BAD_REQUEST)
       ELSE Goto(w, "delete_write", NoView)

DeletedSlot(s) == [slots[s] EXCEPT !.exists = FALSE, !.is_booked = FALSE]

\* Lines 249-254, crud/base.py delete: the unit of work first detaches the
\* appointment that references the slot by setting its slot_id to NULL
\* (AvailableSlot.appointment has no delete cascade); slot_id is NOT NULL, so
\* the commit raises IntegrityError and the request ends 500.
delete_slot_write(w) ==
    /\ pc[w] = "delete_write"
    /\ UNCHANGED aux
    /\ UNCHANGED <<appts, req, delivery>>
    /\ IF get_by_slot(req[w].slot) # {}
       THEN /\ UNCHANGED slots
            /\ Finish(w, SERVER_ERROR)
       ELSE /\ slots' = [slots EXCEPT ![req[w].slot] = DeletedSlot(req[w].slot)]
            /\ Finish(w, OK)

delete_slot(w) ==
    \/ \E s \in SlotIds : delete_slot_read(w, s)
    \/ delete_slot_write(w)

\* ------------------------------------------- tasks/scheduled_jobs.py
JOB_ERROR == "job_error"

\* mark_completed_appointments lines 164-173: the confirmed appointments
\* whose slot has ended.  The query compares the TIME column end_time with a
\* datetime; what that yields is up to the database engine (an error, or a
\* comparison that depends on the clock), so the job either fails or selects
\* some of the confirmed appointments.
mark_completed_appointments_select(w) ==
    /\ pc[w] = "idle"
    /\ UNCHANGED aux
    /\ req' = [req EXCEPT ![w] = [NoReq EXCEPT !.op = "job_complete", !.target = COMPLETED]]
    /\ UNCHANGED <<db, delivery>>
    /\ \/ Finish(w, JOB_ERROR)
       \/ \E sel \in SUBSET {a \in DOMAIN appts : Stored(a) /\ appts[a].status = CONFIRMED} :
            Goto(w, "complete_commit", [NoView EXCEPT !.status = CONFIRMED, !.selected = sel])

\* The writes of a run that fail, out of the rows it selected: the UPDATE of
\* a row raises when the commit is flushed (the row is gone, the database
\* refuses the statement). The empty set is the run without a failure.
Failing(sel) == SUBSET sel

\* What a run of the job selected and which of its writes failed.
Batch(sel, failing) == [selected |-> sel, failed |-> failing]

\* Lines 175-191: every selected row is set to completed, and the one commit
\* of line 181 writes them all. There is no handler inside the loop: an
\* exception goes to the handler of line 189, which rolls the whole session
\* back and returns {status: error}.
mark_completed_appointments_commit(w) ==
    /\ pc[w] = "complete_commit"
    /\ UNCHANGED aux
    /\ UNCHANGED <<slots, delivery>>
    /\ \E failing \in Failing(view[w].selected) :
         /\ req' = [req EXCEPT ![w].data = Batch(view[w].selected, failing)]
         /\ IF failing # {}
            THEN /\ UNCHANGED appts
                 /\ Finish(w, JOB_ERROR)
            ELSE /\ appts' = [a \in DOMAIN appts |->
                                IF a \in view[w].selected
                                THEN [appts[a] EXCEPT !.status = COMPLETED]
                                ELSE appts[a]]
                 /\ Finish(w, OK)

mark_completed_appointments(w) ==
    \/ mark_completed_appointments_select(w)
    \/ mark_completed_appointments_commit(w)

\* reset_weekly_slots lines 92-121: one DELETE of the unbooked slots the
\* filter start_time < one_week_ago selects (a TIME column against a
\* datetime again).  The statement either fails, and is rolled back, or
\* removes the selected rows.  The filter does not ask whether an appointment
\* references a row: where the database enforces the foreign key a DELETE
\* that selects a referenced row is one of the statements that fail, where it
\* does not (see ForeignKeysEnforced) the row is removed.
reset_weekly_slots(w) ==
    /\ pc[w] = "idle"
    /\ UNCHANGED aux
    /\ req' = [req EXCEPT ![w] = [NoReq EXCEPT !.op = "job_reset"]]
    /\ UNCHANGED <<appts, delivery>>
    /\ \/ /\ UNCHANGED slots
          /\ Finish(w, JOB_ERROR)
       \/ \E old \in SUBSET {s \in SlotIds : Exists(s) /\ ~slots[s].is_booked} :
            /\ slots' = [s \in SlotIds |-> IF s \in old THEN DeletedSlot(s) ELSE slots[s]]
            /\ Finish(w, OK)

\* ------------------------------------------------ PUT /appointments/{id}
\* schemas/appointment.py AppointmentUpdate: both fields are optional; a field
\* that the request leaves out is "unset", and meeting_mode may be sent as
\* null.
AppointmentUpdate ==
    [mode : MeetingModes \cup {"unset", "null"}, notes : Notes \cup {"unset"}]

\* The callers of the metadata update: the parents and an administrator
\* (teachers are refused).
UpdateUsers == Parents \cup {"admin", "teacher"}

\* The test of update_appointment on the status of the loaded appointment.
Updatable(status) == status \notin {CANCELLED, COMPLETED}

\* Lines 177-192: appointment.get, the authorization and the status test.
update_appointment_read(w, a, user, upd) ==
    /\ pc[w] = "idle"
    /\ UNCHANGED aux
    /\ req' = [req EXCEPT ![w] = [NoReq EXCEPT !.op = "update", !.user = user,
                                               !.appt = a, !.data = upd]]
    /\ UNCHANGED <<db, delivery>>
    /\ IF ~Stored(a) THEN Finish(w, NOT_FOUND)
       ELSE IF user = "teacher" \/ (user \in Parents /\ appts[a].parent # user)
            THEN Finish(w, FORBIDDEN)
       ELSE IF ~Updatable(appts[a].status) THEN Finish(w, BAD_REQUEST)
       ELSE Goto(w, "update_write", NoView)

\* crud/base.py update: the fields the request sets are written and
\* committed; a null meeting_mode violates NOT NULL and the request ends 500.
updated(row, upd) ==
    [mode |-> IF upd.mode = "unset" THEN row.mode ELSE upd.mode,
     notes |-> IF upd.notes = "unset" THEN row.notes ELSE upd.notes]

\* Lines 194-199.
update_appointment_write(w) ==
    /\ pc[w] = "update_write"
    /\ UNCHANGED <<db, req, delivery, calendar, notification, reminder, people>>
    /\ IF req[w].data.mode = "null"
       THEN /\ UNCHANGED meta
            /\ Finish(w, SERVER_ERROR)
       ELSE /\ meta' = [meta EXCEPT ![req[w].appt] = updated(@, req[w].data)]
            /\ Finish(w, OK)

update_appointment(w) ==
    \/ \E a \in RequestedIds, user \in UpdateUsers, upd \in AppointmentUpdate :
          update_appointment_read(w, a, user, upd)
    \/ update_appointment_write(w)

\* ------------------------------------------------------------ the calendar
\* The slot handlers below work on the times of the slots, which the booking
\* handlers never read: store holds the rows of available_slots with their
\* times, and one worker serves the calendar requests one at a time.

\* Times of day, in units of which DayLen make a day; datetime.time values.
Times == 0..(DayLen - 1)
Weeks == {1, 2}
WeekDays == {0, 1}

\* Optional[...] = None of SlotUpdate and of exclude_slot_id.
Unset == -1
NoId == 0

UNPROCESSABLE == "unprocessable"

\* (datetime.combine(date.min, t) + timedelta(minutes = m)).time(): the date
\* is dropped, so the sum wraps around midnight.
plus(t, m) == (t + m) % DayLen

CalIdle == [pc |-> "idle", result |-> "none", conflict |-> "unchecked", check |-> <<>>]
NoGen == [pattern |-> <<>>, di |-> 0, cur |-> 0, created |-> {}]

\* crud/slot.py create: the row gets a fresh uuid; is_booked defaults to False.
NewSlot(st, teacher, day, week, start, end) ==
    [id |-> Cardinality(st) + 1, teacher |-> teacher, day |-> day, week |-> week,
     start |-> start, end |-> end, is_booked |-> FALSE]

\* The overlap test of the query of check_time_conflict.
TimeOverlapMutant(s, start_time, end_time) ==
    s.start <= end_time /\ s.end >= start_time
TimeOverlap(s, start_time, end_time) ==
    s.start < end_time /\ s.end > start_time

\* crud/slot.py check_time_conflict: the filtered query, the filter on the
\* excluded id when one is given, and whether a first row exists.
check_time_conflict(st, teacher_id, day_of_week, start_time, end_time, week_start, exclude_slot_id) ==
    LET query == {s \in st : /\ s.teacher = teacher_id
                             /\ s.day = day_of_week
                             /\ s.week = week_start
                             /\ TimeOverlap(s, start_time, end_time)}
        filtered == IF exclude_slot_id # NoId
                    THEN {s \in query : s.id # exclude_slot_id}
                    ELSE query
    IN filtered # {}

\* The arguments of a call of check_time_conflict.
Args(teacher_id, day_of_week, start_time, end_time, week_start, exclude_slot_id) ==
    [teacher |-> teacher_id, day |-> day_of_week, week |-> week_start,
     start |-> start_time, end |-> end_time, exclude |-> exclude_slot_id]

conflicts(st, k) ==
    check_time_conflict(st, k.teacher, k.day, k.start, k.end, k.week, k.exclude)

\* The request is answered without a call of check_time_conflict in the step.
CalFinish(r) ==
    cal' = [pc |-> "done", result |-> r, conflict |-> "unchecked", check |-> <<>>]

\* The request is answered after check_time_conflict was called with k and
\* returned c ("yes" or "no").
CalChecked(r, c, k) ==
    cal' = [pc |-> "done", result |-> r, conflict |-> c, check |-> k]

calendar_respond ==
    /\ cal.pc = "done"
    /\ cal' = CalIdle
    /\ gen' = NoGen
    /\ UNCHANGED <<booking, notification, reminder, store>>

\* The users of the slot routes (get_teacher_or_admin): the admin, and the
\* user of each teacher, named as the teacher.
CalUsers == {"admin"} \cup Teachers

\* The times that the requests of the slot routes name.
SlotTimes == 0..(DayLen - 3)

\* Request bodies of POST /slots/; T0 is the id of no teacher.
SlotCreate ==
    [teacher : Teachers \cup {"T0"}, day : WeekDays, week : Weeks,
     start : SlotTimes, end : SlotTimes]

\* ----------------------------------------------------------- POST /slots/
create_slot(user, sl) ==
    /\ cal.pc = "idle"
    /\ Cardinality(store) < MaxStored
    /\ UNCHANGED <<booking, notification, reminder, gen>>
    /\ IF sl.end <= sl.start
       THEN /\ UNCHANGED store
            /\ CalFinish(UNPROCESSABLE)
       ELSE IF sl.teacher \notin Teachers
       THEN /\ UNCHANGED store
            /\ CalFinish(NOT_FOUND)
       ELSE IF user # "admin" /\ user # sl.teacher
       THEN /\ UNCHANGED store
            /\ CalFinish(FORBIDDEN)
       ELSE LET k == Args(sl.teacher, sl.day, sl.start, sl.end, sl.week, NoId)
            IN IF conflicts(store, k)
               THEN /\ UNCHANGED store
                    /\ CalChecked(CONFLICT, "yes", k)
               ELSE /\ store' = store \cup
                           {NewSlot(store, sl.teacher, sl.day, sl.week,
                                    sl.start, sl.end)}
                    /\ CalChecked(OK, "no", k)

\* ------------------------------------------------------- PUT /slots/{id}
\* Request bodies: each field is given or left unset.
SlotUpdate ==
    [day : WeekDays \cup {Unset}, week : Weeks \cup {Unset},
     start : SlotTimes \cup {Unset}, end : SlotTimes \cup {Unset}]

\* update_data.get(field, db_slot.field)
get(given, stored) == IF given = Unset THEN stored ELSE given

update_slot(user, id, upd) ==
    /\ cal.pc = "idle"
    /\ UNCHANGED <<booking, notification, reminder, gen>>
    /\ IF upd.end # Unset /\ upd.start # Unset /\ upd.end <= upd.start
       THEN /\ UNCHANGED store
            /\ CalFinish(UNPROCESSABLE)
       ELSE IF \A s \in store : s.id # id
       THEN /\ UNCHANGED store
            /\ CalFinish(NOT_FOUND)
       ELSE LET db_slot == CHOOSE s \in store : s.id = id
                new_day == get(upd.day, db_slot.day)
                new_start == get(upd.start, db_slot.start)
                new_end == get(upd.end, db_slot.end)
                new_week == get(upd.week, db_slot.week)
                timed == \/ upd.day # Unset \/ upd.week # Unset
                         \/ upd.start # Unset \/ upd.end # Unset
                k == Args(db_slot.teacher, new_day, new_start, new_end, new_week, id)
            IN IF user # "admin" /\ user # db_slot.teacher
               THEN /\ UNCHANGED store
                    /\ CalFinish(FORBIDDEN)
               ELSE IF db_slot.is_booked
               THEN /\ UNCHANGED store
                    /\ CalFinish(BAD_REQUEST)
               ELSE IF timed /\ conflicts(store, k)
               THEN /\ UNCHANGED store
                    /\ CalChecked(CONFLICT, "yes", k)
               ELSE /\ store' = (store \ {db_slot}) \cup
                           {[db_slot EXCEPT !.day = new_day, !.week = new_week,
                                            !.start = new_start, !.end = new_end]}
                    /\ IF timed THEN CalChecked(OK, "no", k) ELSE CalFinish(OK)

\* ------------------------------------------ POST /calendar/bulk-advanced
\* A window of the pattern: lunch_break, or one entry of exclude_times.
Window(a, b) == [start |-> a, end |-> b]

\* The slot_pattern dictionaries of the requests. days may repeat a day and
\* may name a day outside 0..6; lunch is <<>> for the empty dictionary.
DayLists == {<<0, 1>>, <<0, 0>>, <<7, 1>>}
Patterns ==
    [teacher : {"T1", "T0"}, week : {1}, days : DayLists,
     start : {0, 1}, end : {DayLen - 2, DayLen - 1},
     dur : 0..2, brk : 0..1,
     lunch : {<<>>, <<Window(1, 2)>>},
     exclude : {<<>>, <<Window(0, 1)>>, <<Window(0, 1), Window(3, 4)>>}]

\* Lines 478-490: the candidate [current_time, slot_end_time) is skipped
\* when it overlaps the lunch break or one of the excluded windows.
skip_slotMutant(p, current_time, slot_end_time) ==
    \E i \in DOMAIN p.exclude :
        current_time < p.exclude[i].end /\ slot_end_time > p.exclude[i].start
skip_slot(p, current_time, slot_end_time) ==
    \/ \E i \in DOMAIN p.lunch :
          current_time < p.lunch[i].end /\ slot_end_time > p.lunch[i].start
    \/ \E i \in DOMAIN p.exclude :
          current_time < p.exclude[i].end /\ slot_end_time > p.exclude[i].start

\* Lines 429-459: the teacher and the authorization, then the pattern is read.
bulk_start(user, p) ==
    /\ cal.pc = "idle"
    /\ Cardinality(store) < MaxStored
    /\ UNCHANGED <<booking, notification, reminder, store>>
    /\ IF p.teacher \notin Teachers
       THEN /\ UNCHANGED gen
            /\ CalFinish(NOT_FOUND)
       ELSE IF user # "admin" /\ user # p.teacher
       THEN /\ UNCHANGED gen
            /\ CalFinish(FORBIDDEN)
       ELSE /\ gen' = [pattern |-> p, di |-> 1, cur |-> 0, created |-> {}]
            /\ cal' = [cal EXCEPT !.pc = "bulk_day"]

\* Lines 462-466 and 520: the next day of the list, or the response when the
\* list is exhausted.
bulk_day ==
    /\ cal.pc = "bulk_day"
    /\ UNCHANGED <<booking, notification, reminder, store>>
    /\ LET p == gen.pattern
       IN IF gen.di > Len(p.days)
          THEN /\ UNCHANGED gen
               /\ CalFinish(OK)
          ELSE IF ~(0 <= p.days[gen.di] /\ p.days[gen.di] <= 6)
          THEN /\ gen' = [gen EXCEPT !.di = @ + 1]
               /\ UNCHANGED cal
          ELSE /\ gen' = [gen EXCEPT !.cur = p.start]
               /\ cal' = [cal EXCEPT !.pc = "bulk_slot"]

\* Lines 468-518: one pass of the while loop.
bulk_slot ==
    /\ cal.pc = "bulk_slot"
    /\ UNCHANGED <<booking, notification, reminder>>
    /\ LET p == gen.pattern
           day_of_week == p.days[gen.di]
           current_time == gen.cur
           slot_end_time == plus(current_time, p.dur)
           k == Args(p.teacher, day_of_week, current_time, slot_end_time, p.week, NoId)
       IN IF ~(current_time < p.end) \/ slot_end_time > p.end
          THEN /\ gen' = [gen EXCEPT !.di = @ + 1]
               /\ cal' = [cal EXCEPT !.pc = "bulk_day", !.conflict = "unchecked",
                                     !.check = <<>>]
               /\ UNCHANGED store
          ELSE IF skip_slot(p, current_time, slot_end_time)
          THEN /\ gen' = [gen EXCEPT !.cur = plus(slot_end_time, p.brk)]
               /\ cal' = [cal EXCEPT !.conflict = "unchecked", !.check = <<>>]
               /\ UNCHANGED store
          ELSE IF conflicts(store, k)
          THEN /\ gen' = [gen EXCEPT !.cur = plus(slot_end_time, p.brk)]
               /\ cal' = [cal EXCEPT !.conflict = "yes", !.check = k]
               /\ UNCHANGED store
          ELSE IF slot_end_time <= current_time
          THEN \* SlotCreate raises: end_time_after_start_time
               /\ UNCHANGED <<gen, store>>
               /\ CalChecked(SERVER_ERROR, "no", k)
          ELSE /\ store' = store \cup
                      {NewSlot(store, p.teacher, day_of_week, p.week,
                               current_time, slot_end_time)}
               /\ gen' = [gen EXCEPT !.cur = plus(slot_end_time, p.brk),
                                     !.created = @ \cup {Cardinality(store) + 1}]
               /\ cal' = [cal EXCEPT !.conflict = "no", !.check = k]

create_advanced_bulk_slots ==
    \/ \E user \in CalUsers, p \in Patterns : bulk_start(user, p)
    \/ bulk_day
    \/ bulk_slot

\* ------------------------------------------------------- notifications
\* models/notification.py NotificationType and NotificationStatus.
APPOINTMENT_CONFIRMATION == "appointment_confirmation"
APPOINTMENT_CANCELLATION == "appointment_cancellation"
APPOINTMENT_REMINDER == "appointment_reminder"
TEACHER_NOTIFICATION == "teacher_notification"
SENT == "sent"
FAILED == "failed"

\* The appointments that notifications are about; they exist throughout
\* (no profile is deleted while notifications are sent).
NotifiedAppointments == 1..NumSlots

\* services/notification_integration.py: the record that is created after a
\* call of the transport, and marked sent or failed by what the call returned.
Logged(a, type, d) ==
    [appt |-> a, type |-> type, status |-> IF d = "sent" THEN SENT ELSE FAILED]

\* send_appointment_confirmation: the parent's e-mail and record, then the
\* teacher's; an exception ends the function (it is caught and logged).
send_appointment_confirmation(ns, a, d1, d2) ==
    IF d1 = "raised" THEN ns
    ELSE IF d2 = "raised" THEN Append(ns, Logged(a, APPOINTMENT_CONFIRMATION, d1))
    ELSE ns \o <<Logged(a, APPOINTMENT_CONFIRMATION, d1),
                 Logged(a, TEACHER_NOTIFICATION, d2)>>

send_appointment_cancellation(ns, a, d1) ==
    IF d1 = "raised" THEN ns
    ELSE Append(ns, Logged(a, APPOINTMENT_CANCELLATION, d1))

send_appointment_reminder(ns, a, d1) ==
    IF d1 = "raised" THEN ns
    ELSE Append(ns, Logged(a, APPOINTMENT_REMINDER, d1))

\* What the three functions return.
Success(type, d1, d2) ==
    IF type = APPOINTMENT_CONFIRMATION THEN d1 = "sent" /\ d2 = "sent"
    ELSE d1 = "sent"

\* The types that POST /notifications/send accepts.
SendTypes == {APPOINTMENT_CONFIRMATION, APPOINTMENT_CANCELLATION, APPOINTMENT_REMINDER}

\* A dispatch for appointment a, with the outcomes of the transport: the one
\* of the booking route (confirmation), of the cancel route (cancellation),
\* or of POST /notifications/send (any of the three types).
dispatch(a, type, d1, d2) ==
    /\ Len(notifs) + 2 <= MaxNotifs
    /\ type \in SendTypes
    /\ notifs' = IF type = APPOINTMENT_CONFIRMATION
                 THEN send_appointment_confirmation(notifs, a, d1, d2)
                 ELSE IF type = APPOINTMENT_CANCELLATION
                 THEN send_appointment_cancellation(notifs, a, d1)
                 ELSE send_appointment_reminder(notifs, a, d1)
    /\ UNCHANGED <<booking, calendar, reminder, task, rt, sending>>

\* ----------------------------- POST /notifications/retry/{notification_id}
RtIdle == [pc |-> "idle", notif |-> 0, result |-> "none", delivered |-> "none"]

\* Lines 208-225 and 243: the checks, the background task is queued and the
\* request is answered.
retry_failed_notification(n) ==
    /\ rt.pc = "idle"
    /\ Len(notifs) + 2 <= MaxNotifs
    /\ UNCHANGED <<booking, calendar, reminder, notifs, task, sending>>
    /\ IF n \notin DOMAIN notifs
       THEN rt' = [RtIdle EXCEPT !.pc = "done", !.notif = n, !.result = NOT_FOUND]
       ELSE IF notifs[n].status # FAILED
       THEN rt' = [RtIdle EXCEPT !.pc = "done", !.notif = n, !.result = BAD_REQUEST]
       ELSE rt' = [RtIdle EXCEPT !.pc = "queued", !.notif = n, !.result = OK]

\* Lines 228-239: the background task, run after the response.
retry_notification_task(d1, d2) ==
    /\ rt.pc = "queued"
    /\ UNCHANGED <<booking, calendar, reminder, task, sending>>
    /\ LET n == rt.notif
           a == notifs[n].appt
           type == notifs[n].type
           delivered == IF Success(type, d1, d2) THEN "sent" ELSE "failed"
       IN IF type = APPOINTMENT_CONFIRMATION
          THEN /\ notifs' = send_appointment_confirmation(notifs, a, d1, d2)
               /\ rt' = [rt EXCEPT !.pc = "done", !.delivered = delivered]
          ELSE IF type = APPOINTMENT_CANCELLATION
          THEN /\ notifs' = send_appointment_cancellation(notifs, a, d1)
               /\ rt' = [rt EXCEPT !.pc = "done", !.delivered = delivered]
          ELSE IF type = APPOINTMENT_REMINDER
          THEN /\ notifs' = send_appointment_reminder(notifs, a, d1)
               /\ rt' = [rt EXCEPT !.pc = "done", !.delivered = delivered]
          ELSE /\ UNCHANGED notifs
               /\ rt' = [rt EXCEPT !.pc = "done", !.delivered = "none"]

\* The retry is over: the next one can be requested.
retry_respond ==
    /\ rt.pc = "done"
    /\ rt' = RtIdle
    /\ UNCHANGED <<booking, calendar, reminder, notifs, task, sending>>

\* ------------------------------- tasks/notifications.py send_email_async
NoTask == [state |-> "none", notif |-> 0, retries |-> 0, attempts |-> 0, failed |-> FALSE]

\* send_email_async.delay(..., notification_id = n): the message is queued;
\* n = 0 is a message without a notification id.
send_email_async_delay(n) ==
    /\ task.state = "none"
    /\ n \in {0} \cup DOMAIN notifs
    /\ task' = [NoTask EXCEPT !.state = "queued", !.notif = n]
    /\ UNCHANGED <<booking, calendar, reminder, notifs, rt, sending>>

\* Line 28 and line 83: self.retry queues the message again while
\* self.request.retries is below max_retries, and gives up after that.
retry(t) ==
    IF t.retries < MaxRetries
    THEN [t EXCEPT !.retries = @ + 1, !.attempts = @ + 1, !.failed = TRUE]
    ELSE [t EXCEPT !.state = "failed", !.attempts = @ + 1, !.failed = TRUE]

\* services/notification.py line 272: the parameters of send_email, and the
\* keywords of the call of lines 51-56 of the task.
SendEmailParameters == {"to_email", "subject", "html_content", "text_content"}
SendEmailKeywords == {"to_email", "subject", "body", "html_body"}

\* The call of send_email by the task: a keyword that is no parameter raises
\* TypeError; otherwise the call returns the coroutine of the async function
\* (the task does not await it), and a coroutine is true.
send_email ==
    IF SendEmailKeywords \subseteq SendEmailParameters THEN "coroutine" ELSE "raised"

\* One run of the task: the call of the transport, the status of the record
\* when the message names one (line 62, or line 78 in the exception handler),
\* and the retry when the call failed.
send_email_async ==
    /\ task.state = "queued"
    /\ UNCHANGED <<booking, calendar, reminder, rt, sending>>
    /\ LET success == send_email = "coroutine"
       IN /\ notifs' = IF task.notif \in DOMAIN notifs
                       THEN [notifs EXCEPT ![task.notif].status =
                                               IF success THEN SENT ELSE FAILED]
                       ELSE notifs
          /\ task' = IF success
                     THEN [task EXCEPT !.state = "sent", !.attempts = @ + 1,
                                       !.failed = FALSE]
                     ELSE retry(task)

\* The message has left the queue for good.
task_done ==
    /\ task.state \in {"sent", "failed"}
    /\ task' = NoTask
    /\ UNCHANGED <<booking, calendar, reminder, notifs, rt, sending>>

\* --------------------- tasks/scheduled_jobs.py send_appointment_reminders
\* models/appointment.py: the attributes of Appointment.
AppointmentColumns ==
    {"id", "parent_id", "teacher_id", "slot_id", "meeting_mode", "status", "notes",
     "created_at", "updated_at"}

JobIdle == [pc |-> "idle", due |-> {}, result |-> "none"]

\* One run of the scan. due is the set of appointments whose slot starts in
\* the window of 23 to 25 hours after the time of the run. The filter of the
\* query names Appointment.reminder_sent (line 45), which is no attribute of
\* Appointment: building the query raises AttributeError, the handler of
\* line 76 returns the error, and the loop of lines 54-67, which hands each
\* selected appointment to send_appointment_reminder.delay and sets its
\* reminder_sent, is not reached.
send_appointment_reminders(due) ==
    /\ job.pc = "idle"
    /\ due \subseteq DOMAIN appts
    /\ UNCHANGED <<booking, calendar, notification>>
    /\ IF "reminder_sent" \notin AppointmentColumns
       THEN /\ job' = [pc |-> "done", due |-> due, result |-> JOB_ERROR]
            /\ UNCHANGED reminded
       ELSE /\ job' = [pc |-> "done", due |-> due, result |-> OK]
            /\ reminded' = reminded \cup {a \in due : appts[a].status = CONFIRMED}

\* The run is over; Celery Beat starts the next one an hour later.
reminders_done ==
    /\ job.pc = "done"
    /\ job' = JobIdle
    /\ UNCHANGED <<booking, calendar, notification, reminded>>

\* ------------------------- tasks/scheduled_jobs.py reset_weekly_slots
\* datetime.utcnow() of a run: the week it falls in and the time of day.
Clock == [week : Weeks, time : Times]

\* Line 100, AvailableSlot.start_time < one_week_ago: a TIME column against
\* a datetime. What the comparison yields is up to the engine behind
\* DATABASE_URL: the statement is refused ("error"), or the time of day is
\* turned into a datetime of a fixed early date (every row "before") or of
\* the current date (every row "after"). week_start_date is not read.
TimeAgainstDatetime == {"error", "before", "after"}

\* Lines 97-102: the rows that the DELETE removes.
deleted_slots(st, one_week_ago, cmp) ==
    {s \in st : ~s.is_booked /\ cmp = "before"}

\* One run of the job, on the rows of the table with their weeks.
reset_weekly_slots_run(now) ==
    /\ cal.pc = "idle"
    /\ UNCHANGED <<booking, notification, reminder, gen>>
    /\ \E cmp \in TimeAgainstDatetime :
         LET one_week_ago == [now EXCEPT !.week = now.week - 1]
         IN IF cmp = "error"
            THEN /\ UNCHANGED store
                 /\ CalChecked(JOB_ERROR, "unchecked", now)
            ELSE /\ store' = store \ deleted_slots(store, one_week_ago, cmp)
                 /\ CalChecked(OK, "unchecked", now)

\* ------------------------- DELETE /parents/{id} and DELETE /teachers/{id}
\* crud/base.py delete on a Parent: db.delete(db_obj) and commit. The
\* relationship Parent.appointments has cascade="all, delete-orphan", so the
\* unit of work deletes the rows of the parent's appointments with the
\* parent; nothing is done to the slots of those appointments.
delete_parent(w) ==
    /\ pc[w] = "idle"
    /\ UNCHANGED <<db, delivery, meta, calendar, notification, reminder>>
    /\ \E parent_id \in Parents :
         /\ req' = [req EXCEPT ![w] = [NoReq EXCEPT !.op = "delete_parent", !.user = parent_id]]
         /\ IF parent_id \notin profiles.parents
            THEN /\ UNCHANGED people
                 /\ Finish(w, NOT_FOUND)
            ELSE /\ profiles' = [profiles EXCEPT !.parents = @ \ {parent_id}]
                 /\ removed' = removed \cup
                        {a \in DOMAIN appts : appts[a].parent = parent_id}
                 /\ Finish(w, OK)

\* crud/base.py delete on a Teacher: Teacher.available_slots and
\* Teacher.appointments both have cascade="all, delete-orphan", so the
\* teacher's appointments and slots are deleted with the teacher.
delete_teacher(w) ==
    /\ pc[w] = "idle"
    /\ UNCHANGED <<appts, delivery, meta, cal, gen, notification, reminder>>
    /\ \E teacher_id \in Teachers :
         /\ req' = [req EXCEPT ![w] = [NoReq EXCEPT !.op = "delete_teacher", !.user = teacher_id]]
         /\ IF teacher_id \notin profiles.teachers
            THEN /\ UNCHANGED <<slots, store, people>>
                 /\ Finish(w, NOT_FOUND)
            ELSE /\ profiles' = [profiles EXCEPT !.teachers = @ \ {teacher_id}]
                 /\ removed' = removed \cup
                        {a \in DOMAIN appts : appts[a].teacher = teacher_id}
                 /\ slots' = [s \in SlotIds |->
                                IF slots[s].teacher = teacher_id
                                THEN DeletedSlot(s) ELSE slots[s]]
                 /\ store' = {s \in store : s.teacher # teacher_id}
                 /\ Finish(w, OK)

\* ------------- services/notification_integration.py, statement by statement
\* The three functions of NotificationIntegrationService again, each
\* statement a step: the call of the transport, notification.create, and
\* mark_as_sent or mark_as_failed. `to` is the recipient: the parent, and
\* after the parent the teacher when the message is a confirmation.
NoSending ==
    [pc |-> "idle", appt |-> 0, type |-> "none", to |-> "none", outcome |-> "none", notif |-> 0]

\* schemas/notification.py NotificationCreate and the default of the column
\* status: the record that notification.create inserts.
NotificationCreate(a, type) == [appt |-> a, type |-> type, status |-> PENDING]

\* crud/notification.py mark_as_sent and mark_as_failed.
mark_as_sent(ns, n) ==
    IF n \in DOMAIN ns THEN [ns EXCEPT ![n].status = SENT] ELSE ns

mark_as_failed(ns, n) ==
    IF n \in DOMAIN ns THEN [ns EXCEPT ![n].status = FAILED] ELSE ns

\* The booking route, the cancel route, POST /notifications/send and the
\* retry task call one of the three functions for appointment a.
send_appointment_begin(a, type) ==
    /\ sending.pc = "idle"
    /\ Len(notifs) + 2 <= MaxNotifs
    /\ sending' = [NoSending EXCEPT !.pc = "transport", !.appt = a, !.type = type,
                                    !.to = "parent"]
    /\ UNCHANGED <<booking, calendar, reminder, notifs, task, rt>>

\* await self.notification_service.send_...(): the transport is invoked.
\* NotificationService.send_email turns a failure of the transport into
\* False; an exception of the statements around it ends the function in its
\* handler, which returns False.
notification_service_send(d) ==
    /\ sending.pc = "transport"
    /\ sending' = IF d = "raised"
                  THEN [sending EXCEPT !.pc = "done", !.outcome = d]
                  ELSE [sending EXCEPT !.pc = "create", !.outcome = d]
    /\ UNCHANGED <<booking, calendar, reminder, notifs, task, rt>>

\* notification.create(db, ...): the record is inserted and committed.
notification_create ==
    /\ sending.pc = "create"
    /\ notifs' = Append(notifs,
                        NotificationCreate(sending.appt,
                                           IF sending.to = "teacher"
                                           THEN TEACHER_NOTIFICATION
                                           ELSE sending.type))
    /\ sending' = [sending EXCEPT !.pc = "mark", !.notif = Len(notifs) + 1]
    /\ UNCHANGED <<booking, calendar, reminder, task, rt>>

\* if success: mark_as_sent else: mark_as_failed; a confirmation goes on to
\* the teacher's e-mail.
notification_mark ==
    /\ sending.pc = "mark"
    /\ notifs' = IF sending.outcome = "sent"
                 THEN mark_as_sent(notifs, sending.notif)
                 ELSE mark_as_failed(notifs, sending.notif)
    /\ sending' = IF sending.type = APPOINTMENT_CONFIRMATION /\ sending.to = "parent"
                  THEN [sending EXCEPT !.pc = "transport", !.to = "teacher",
                                       !.outcome = "none", !.notif = 0]
                  ELSE [sending EXCEPT !.pc = "done"]
    /\ UNCHANGED <<booking, calendar, reminder, task, rt>>

\* The function returns.
send_appointment_return ==
    /\ sending.pc = "done"
    /\ sending' = NoSending
    /\ UNCHANGED <<booking, calendar, reminder, notifs, task, rt>>

\* ----------------------------- POST /slots/ by several server processes
\* create_slot again, as the two database round trips it makes: the checks
\* with the query of check_time_conflict (lines 70-88), and slot.create, which
\* inserts and commits (lines 90-94). Another process can act between them.
create_slot_check(w, user, sl) ==
    /\ pc[w] = "idle"
    /\ Cardinality(store) < MaxStored
    /\ UNCHANGED <<db, delivery, meta, people, calendar, notification, reminder>>
    /\ req' = [req EXCEPT ![w] = [NoReq EXCEPT !.op = "create_slot", !.user = user,
                                               !.data = sl]]
    /\ IF sl.end <= sl.start THEN Finish(w, UNPROCESSABLE)
       ELSE IF sl.teacher \notin Teachers THEN Finish(w, NOT_FOUND)
       ELSE IF user # "admin" /\ user # sl.teacher THEN Finish(w, FORBIDDEN)
       ELSE IF conflicts(store, Args(sl.teacher, sl.day, sl.start, sl.end, sl.week, NoId))
       THEN Finish(w, CONFLICT)
       ELSE Goto(w, "slot_create", NoView)

create_slot_create(w) ==
    /\ pc[w] = "slot_create"
    /\ UNCHANGED <<db, req, delivery, meta, people, cal, gen, notification, reminder>>
    /\ LET sl == req[w].data
       IN store' = store \cup
                     {NewSlot(store, sl.teacher, sl.day, sl.week, sl.start, sl.end)}
    /\ Finish(w, OK)

\* Patterns with a positive slot duration and a non-negative break whose end
\* bound is close to midnight: the duration or the break added to a time of
\* day can pass DayLen, and the time wraps (plus).
WrapPatterns ==
    [teacher : {"T1"}, week : {1}, days : DayLists,
     start : {0, 1}, end : {DayLen - 2, DayLen - 1},
     dur : 1..2, brk : {0, 1, DayLen - 2},
     lunch : {<<>>, <<Window(1, 2)>>},
     exclude : {<<>>}]

\* ------------------------------------------------------ specifications
Handler(w) ==
    \/ respond(w)
    \/ book_appointment(w)
    \/ update_appointment_status(w)
    \/ cancel_appointment(w)
    \/ delete_slot(w)
    \/ mark_completed_appointments(w)
    \/ reset_weekly_slots(w)

\* Several server and job processes: their steps interleave.
Next == \E w \in Workers : Handler(w)

\* The races are over one slot: the database starts with slot 1 only.
InitOneSlot ==
    /\ slots = [s \in SlotIds |->
                   [exists |-> s = 1, is_booked |-> FALSE, teacher |-> SlotTeacher(s)]]
    /\ appts = <<>>
    /\ InitWorkers
    /\ InitAux

Spec == InitOneSlot /\ [][Next]_vars

\* One server process: the handlers are coroutines that never yield between
\* their first query and their last commit, so requests run one at a time.
NextSerial == Handler(1)

SpecSerial == Init /\ [][NextSerial]_vars

\* N requesters book slot 1 at the same time, one request per worker.
BookRace(w) ==
    \/ \E user \in Parents : book_load(w, user, 1)
    \/ book_check_existing(w)
    \/ book_create(w)
    \/ book_mark_as_booked(w)
    \/ book_notify(w)

NextBookRace == \E w \in Workers : BookRace(w)

SpecBookRace == InitOneSlot /\ [][NextBookRace]_vars

\* The end-to-end scenario: slots are booked, appointments are confirmed, and
\* confirmed appointments are cancelled, one request at a time.
NextRebook ==
    \/ respond(1)
    \/ book_appointment(1)
    \/ \E a \in RequestedIds : update_appointment_status_read(1, a, CONFIRMED)
    \/ update_appointment_status_write(1)
    \/ \E a \in DOMAIN appts :
          /\ appts[a].status = CONFIRMED
          /\ cancel_appointment_read(1, a)
    \/ cancel_appointment_write(1)
    \/ cancel_appointment_notify(1)

SpecRebook == Init /\ [][NextRebook]_vars

\* Bookings, status updates and metadata updates of the appointment on slot
\* 1, one request at a time.
NextUpdate ==
    \/ respond(1)
    \/ book_appointment(1)
    \/ update_appointment_status(1)
    \/ update_appointment(1)

SpecUpdate == InitOneSlot /\ [][NextUpdate]_vars

\* The slot routes, one request at a time.
NextSlots ==
    \/ calendar_respond
    \/ \E user \in CalUsers, sl \in SlotCreate : create_slot(user, sl)
    \/ \E user \in CalUsers, id \in 1..MaxStored, upd \in SlotUpdate :
          update_slot(user, id, upd)

SpecSlots == Init /\ [][NextSlots]_vars

\* Bulk generation requests, one at a time.
NextBulk ==
    \/ calendar_respond
    \/ create_advanced_bulk_slots

SpecBulk == Init /\ [][NextBulk]_vars

\* Dispatches by the routes and retries of failed notifications.
NextRetry ==
    \/ \E a \in NotifiedAppointments, d1, d2 \in DeliveryOutcomes, type \in SendTypes :
          dispatch(a, type, d1, d2)
    \/ \E n \in 1..MaxNotifs : retry_failed_notification(n)
    \/ \E d1, d2 \in DeliveryOutcomes : retry_notification_task(d1, d2)
    \/ retry_respond

SpecRetry == Init /\ [][NextRetry]_vars

\* Dispatches by the routes and e-mails sent by the Celery task.
NextMail ==
    \/ \E a \in NotifiedAppointments, d1, d2 \in DeliveryOutcomes, type \in SendTypes :
          dispatch(a, type, d1, d2)
    \/ \E n \in 0..MaxNotifs : send_email_async_delay(n)
    \/ send_email_async
    \/ task_done

SpecMail == Init /\ [][NextMail]_vars

\* Bookings and status changes of one worker, and runs of the reminder scan.
NextReminder ==
    \/ respond(1)
    \/ book_appointment(1)
    \/ update_appointment_status(1)
    \/ \E due \in SUBSET (1..MaxAppointments) : send_appointment_reminders(due)
    \/ reminders_done

SpecReminder == InitOneSlot /\ [][NextReminder]_vars

\* Slots are created, and the weekly reset runs.
NextReset ==
    \/ calendar_respond
    \/ \E sl \in SlotCreate : create_slot("admin", sl)
    \/ \E now \in Clock : reset_weekly_slots_run(now)

SpecReset == Init /\ [][NextReset]_vars

\* Bookings and cancellations, and deletions of profiles by the admin, one
\* request at a time.
NextProfiles ==
    \/ respond(1)
    \/ book_appointment(1)
    \/ cancel_appointment(1)
    \/ delete_parent(1)
    \/ delete_teacher(1)

SpecProfiles == Init /\ [][NextProfiles]_vars

\* The deliveries of NotificationIntegrationService, statement by statement.
NextDeliver ==
    \/ \E a \in NotifiedAppointments, type \in SendTypes : send_appointment_begin(a, type)
    \/ \E d \in DeliveryOutcomes : notification_service_send(d)
    \/ notification_create
    \/ notification_mark
    \/ send_appointment_return

SpecDeliver == Init /\ [][NextDeliver]_vars

\* Several server processes serve POST /slots/ for teacher T1 at the same
\* time.
NextSlotRace ==
    \E w \in Workers :
        \/ respond(w)
        \/ \E sl \in SlotCreate : create_slot_check(w, "T1", sl)
        \/ create_slot_create(w)

SpecSlotRace == Init /\ [][NextSlotRace]_vars

\* Bulk generation requests for the patterns of WrapPatterns. A handler that
\* has started keeps running: each step of the request that is enabled is
\* eventually taken.
NextBulkWrap ==
    \/ calendar_respond
    \/ \E user \in {"admin", "T1"}, p \in WrapPatterns : bulk_start(user, p)
    \/ bulk_day
    \/ bulk_slot

SpecBulkWrap ==
    /\ Init
    /\ [][NextBulkWrap]_vars
    /\ WF_vars(calendar_respond)
    /\ WF_vars(bulk_day)
    /\ WF_vars(bulk_slot)

\* ------------------------------------------------------------ properties
\* The transition table of the appointment state machine: the targets a
\* transition request may move an appointment to, by its current status.
TableAllows(from, target) ==
    \/ from = PENDING /\ target \in {CONFIRMED, COMPLETED, NO_SHOW, CANCELLED}
    \/ from = CONFIRMED /\ target \in {COMPLETED, NO_SHOW, CANCELLED}

\* The non-cancelled appointments that reference slot s.
ActiveOn(s) == {a \in get_by_slot(s) : appts[a].status # CANCELLED}

\* Worker w took the step.
Moved(w) ==
    <<pc[w], req[w], view[w], result[w], delivery[w]>>
        # <<pc'[w], req'[w], view'[w], result'[w], delivery'[w]>>

AllDone == \A w \in Workers : pc[w] = "done"

\* C1: when N >= 2 requesters book the same unbooked slot concurrently,
\* exactly one request succeeds, every other one ends with a conflict error,
\* and afterwards the slot is booked and exactly one appointment references it.
C1_ExactlyOneBookingSucceeds ==
    AllDone =>
        /\ Cardinality({w \in Workers : result[w] = OK}) = 1
        /\ \A w \in Workers : result[w] \in {OK, CONFLICT}
        /\ slots[1].is_booked
        /\ Cardinality(get_by_slot(1)) = 1

\* C2: in every reachable state a slot is booked if and only if exactly one
\* non-cancelled appointment references it.
C2_BookedIffOneActiveAppointment ==
    \A s \in SlotIds :
        Exists(s) => (slots[s].is_booked <=> Cardinality(ActiveOn(s)) = 1)

\* C3: no two appointments, cancelled ones included, reference the same slot.
C3_SlotReferenceUnique ==
    \A a, b \in DOMAIN appts : a # b => appts[a].slot # appts[b].slot

\* A booking lost the race for the slot: the insert of its appointment was
\* refused because another appointment already references the slot.
C3_Witness ==
    \E w \in Workers :
        /\ pc[w] = "done" /\ req[w].op = "book" /\ result[w] = SERVER_ERROR
        /\ Exists(req[w].slot)
        /\ Cardinality(get_by_slot(req[w].slot)) = 1

\* C4: once the appointment on a slot was booked, confirmed and cancelled, the
\* slot is free and a booking of it by another requester is not refused.
C4_RebookAfterCancel ==
    /\ \A a \in DOMAIN appts :
          appts[a].status = CANCELLED /\ Exists(appts[a].slot)
              => ~slots[appts[a].slot].is_booked
    /\ \A w \in Workers :
          ( /\ pc[w] = "done" /\ req[w].op = "book" /\ result[w] = CONFLICT
            /\ get_by_slot(req[w].slot) # {} )
          => \E a \in get_by_slot(req[w].slot) :
                \/ appts[a].status # CANCELLED
                \/ appts[a].parent = get_by_user_id(req[w].user)

\* The transition requests: the status-update request and the cancel request.
TransitionOps == {"status", "cancel"}
TableTargets == {CONFIRMED, COMPLETED, NO_SHOW, CANCELLED}

\* C5: a transition request that the table does not allow for the current
\* status is answered with an error and changes neither the appointment nor
\* the slot, whichever entry point it came through.
C5_IllegalTransitionsRejected ==
    [][\A w \in Workers :
          ( /\ Moved(w)
            /\ pc[w] \in {"idle", "status_write", "cancel_write"}
            /\ req'[w].op \in TransitionOps
            /\ req'[w].appt \in DOMAIN appts
            /\ req'[w].target \in TableTargets
            /\ ~TableAllows(appts[req'[w].appt].status, req'[w].target) )
          => /\ appts' = appts
             /\ slots' = slots
             /\ result'[w] # OK]_vars

\* C6: no step moves a stored appointment that is not pending to pending.
C6_PendingOnlyByCreation ==
    [][\A a \in DOMAIN appts :
          appts[a].status # PENDING => appts'[a].status # PENDING]_vars

\* C7: a transition request that the table allows for the current status is
\* carried through every step of its handler: it is not rejected, its write
\* sets the status to the target, and it is answered with success.
C7_AllowedTransitionsSucceed ==
    [][\A w \in Workers :
          LET a == req'[w].appt
              target == req'[w].target
          IN ( /\ Moved(w)
               /\ req'[w].op \in TransitionOps
               /\ a \in DOMAIN appts
               /\ target \in TableTargets )
             => /\ ( pc[w] = "idle" /\ TableAllows(appts[a].status, target) )
                       => pc'[w] \in {"status_write", "cancel_write"}
                /\ ( pc[w] \in {"status_write", "cancel_write"}
                     /\ TableAllows(appts[a].status, target) )
                       => /\ appts'[a].status = target
                          /\ pc'[w] = "cancel_notify" \/ result'[w] = OK
                /\ pc[w] = "cancel_notify"
                       => result'[w] = OK /\ appts'[a].status = target]_vars

\* A status-update request marked an appointment as no_show and was answered
\* with success.
C7_Witness ==
    \E w \in Workers :
        /\ pc[w] = "done" /\ req[w].op = "status" /\ req[w].target = NO_SHOW
        /\ result[w] = OK
        /\ appts[req[w].appt].status = NO_SHOW

\* C8: a transition whose write comes after a conflicting transition of
\* another worker moved the appointment to a terminal status is answered with
\* an error and leaves that status in place.
C8_ConflictingTransitionsSerialized ==
    [][\A w \in Workers :
          LET a == req[w].appt
              target == req[w].target
          IN ( /\ pc[w] \in {"status_write", "cancel_write"}
               /\ pc'[w] # pc[w]
               /\ TableAllows(view[w].status, target)
               /\ appts[a].status \in {COMPLETED, CANCELLED, NO_SHOW}
               /\ appts[a].status # view[w].status
               /\ appts[a].status # target )
             => /\ appts'[a].status = appts[a].status
                /\ result'[w] \in {BAD_REQUEST, CONFLICT}]_vars

\* C9: a book request of a requester, run without interference, is refused
\* with not-found when the slot does not exist and with conflict when the slot
\* is booked or referenced, changing nothing; otherwise it inserts exactly one
\* pending appointment bound to the slot and its provider, then sets the
\* slot's flag, and is answered with success.
C9_BookOutcomes ==
    [][\A w \in Workers :
          LET s == req'[w].slot
              parent == get_by_user_id(req'[w].user)
              taken == slots[s].is_booked \/ get_by_slot(s) # {}
          IN ( Moved(w) /\ req'[w].op = "book" /\ parent # "none" )
             => /\ pc[w] = "idle"
                   => /\ UNCHANGED db
                      /\ ~Exists(s) => pc'[w] = "done" /\ result'[w] = NOT_FOUND
                      /\ (Exists(s) /\ taken)
                            => \/ pc'[w] = "done" /\ result'[w] = CONFLICT
                               \/ pc'[w] = "book_check"
                      /\ (Exists(s) /\ ~taken) => pc'[w] = "book_check"
                /\ pc[w] = "book_check"
                   => /\ UNCHANGED db
                      /\ taken => pc'[w] = "done" /\ result'[w] = CONFLICT
                      /\ ~taken => pc'[w] = "book_create"
                /\ pc[w] = "book_create"
                   => /\ appts' = Append(appts, [parent |-> parent,
                                                 teacher |-> slots[s].teacher,
                                                 slot |-> s, status |-> PENDING])
                      /\ slots' = slots
                      /\ pc'[w] = "book_flip"
                /\ pc[w] = "book_flip"
                   => /\ slots' = [slots EXCEPT ![s].is_booked = TRUE]
                      /\ appts' = appts
                      /\ pc'[w] = "book_notify"
                /\ pc[w] = "book_notify"
                   => /\ UNCHANGED db
                      /\ result'[w] = OK]_vars

\* A book request on a free slot was answered with success: its appointment
\* is the only one on the slot, is pending, and the slot is booked.
C9_Witness ==
    \E w \in Workers :
        /\ pc[w] = "done" /\ req[w].op = "book" /\ result[w] = OK
        /\ get_by_slot(req[w].slot) = {req[w].appt}
        /\ appts[req[w].appt].status = PENDING
        /\ appts[req[w].appt].teacher = slots[req[w].slot].teacher
        /\ slots[req[w].slot].is_booked

\* C10: whatever the notification dispatch does, book answers success with
\* the appointment pending and the slot booked, cancel answers success with
\* the appointment cancelled and the slot free, and the dispatch changes
\* neither table.
C10_OutcomeIndependentOfDelivery ==
    [][\A w \in Workers :
          LET a == req[w].appt
              s == appts[a].slot
          IN /\ ( pc[w] = "book_notify" /\ pc'[w] # pc[w] )
                => /\ result'[w] = OK
                   /\ UNCHANGED db
                   /\ appts'[a].status = PENDING
                   /\ slots'[s].is_booked
             /\ ( pc[w] = "cancel_notify" /\ pc'[w] # pc[w] )
                => /\ result'[w] = OK
                   /\ UNCHANGED db
                   /\ appts'[a].status = CANCELLED
                   /\ ~slots'[s].is_booked]_vars

\* The dispatch of a booking raised, and the booking stands.
C10_Witness ==
    \E w \in Workers :
        /\ pc[w] = "done" /\ req[w].op = "book" /\ delivery[w] = "raised"
        /\ result[w] = OK
        /\ appts[req[w].appt].status = PENDING
        /\ slots[req[w].slot].is_booked

\* C11: a metadata update of an appointment that is completed, cancelled or
\* no_show is not answered with success and leaves its mode and notes as
\* they were.
C11_UpdateOnlyWhileActive ==
    [][\A w \in Workers :
          ( /\ Moved(w)
            /\ req'[w].op = "update"
            /\ req'[w].appt \in DOMAIN appts
            /\ appts[req'[w].appt].status \in {COMPLETED, CANCELLED, NO_SHOW} )
          => /\ meta' = meta
             /\ result'[w] # OK]_vars

\* C12: a request that has moved an appointment to cancelled, by the cancel
\* route or by the status route with target cancelled, has dispatched a
\* cancellation notification by the time it is answered.
C12_CancelledIsNotified ==
    \A w \in Workers :
        ( /\ pc[w] = "done"
          /\ req[w].op \in TransitionOps
          /\ req[w].target = CANCELLED
          /\ result[w] = OK )
        => delivery[w] \in DeliveryOutcomes

\* Stored slot s is one that the claim lets cause a conflict for the
\* arguments k: a slot of the same teacher, day and week, which is not the
\* excluded one, with s.start < end and s.end > start.
Causes(s, k) ==
    /\ s.teacher = k.teacher /\ s.day = k.day /\ s.week = k.week
    /\ ~(k.exclude # NoId /\ s.id = k.exclude)
    /\ s.start < k.end /\ s.end > k.start

\* C13: whenever check_time_conflict is called, it returns true exactly when
\* some stored slot of the same teacher, day and week, other than the excluded
\* one, has start < end of the candidate and end > start of the candidate; it
\* returns false when every such slot at most touches the candidate, and when
\* the stored slots all belong to other teachers, days or weeks.
C13_ConflictIffOverlap ==
    [][( cal' # cal /\ cal'.conflict # "unchecked" )
       => LET k == cal'.check
              same == {s \in store : /\ s.teacher = k.teacher /\ s.day = k.day
                                     /\ s.week = k.week /\ s.id # k.exclude}
          IN /\ (cal'.conflict = "yes") <=> (\E s \in store : Causes(s, k))
             /\ (\A s \in same : s.end <= k.start \/ k.end <= s.start)
                   => cal'.conflict = "no"
             /\ same = {} => cal'.conflict = "no"]_vars

\* A slot was moved with its own id excluded, next to a stored slot of the
\* same teacher, day and week that it touches, and no conflict was reported.
C13_Witness ==
    /\ cal.pc = "done" /\ cal.conflict = "no" /\ cal.result = OK
    /\ cal.check.exclude # NoId
    /\ \E s, t \in store :
          /\ s.id = cal.check.exclude /\ t.id # s.id
          /\ s.start = cal.check.start /\ s.end = cal.check.end
          /\ s.start < s.end /\ t.start < t.end
          /\ t.teacher = s.teacher /\ t.day = s.day /\ t.week = s.week
          /\ t.end = s.start

\* C14: in a pass of the loop of the bulk generation, a slot is inserted only
\* after the conflict check found no conflict for it; a candidate that
\* conflicts with a stored slot is skipped and the loop goes on; a candidate
\* that does not conflict is inserted; and no stored slot is removed.
C14_BulkBestEffort ==
    [][( cal.pc = "bulk_slot" /\ <<store, cal, gen>>' # <<store, cal, gen>> )
       => /\ store \subseteq store'
          /\ store' # store
                => /\ cal'.conflict = "no"
                   /\ ~ \E s \in store : Causes(s, cal'.check)
          /\ cal'.conflict = "yes"
                => /\ store' = store
                   /\ cal'.pc = "bulk_slot"
          /\ cal'.conflict = "no"
                => /\ cal'.pc = "bulk_slot"
                   /\ \E s \in store' \ store :
                         /\ s.teacher = cal'.check.teacher
                         /\ s.day = cal'.check.day /\ s.week = cal'.check.week
                         /\ s.start = cal'.check.start
                         /\ s.end = cal'.check.end]_vars

\* The slots that the bulk request in progress has created.
Created == {s \in store : s.id \in gen.created}

\* The time ranges [a.start, a.end) and [b.start, b.end) share a time of day.
Meets(a, b) ==
    \E t \in Times : /\ a.start <= t /\ t < a.end
                     /\ b.start <= t /\ t < b.end

\* C15: no slot created by a bulk request shares a time with the lunch break
\* or with an excluded window of its pattern, and no two slots that the
\* request created for the same day share a time.
C15_GeneratedSlotsDisjoint ==
    gen.created # {}
        => /\ \A s \in Created :
                 /\ \A i \in DOMAIN gen.pattern.lunch : ~Meets(s, gen.pattern.lunch[i])
                 /\ \A i \in DOMAIN gen.pattern.exclude :
                        ~Meets(s, gen.pattern.exclude[i])
           /\ \A s, t \in Created :
                 (s.id # t.id /\ s.day = t.day) => ~Meets(s, t)

\* A request with a lunch break and an excluded window is answered after it
\* created two slots for one day.
C15_Witness ==
    /\ cal.pc = "done" /\ cal.result = OK
    /\ gen.created # {}
    /\ gen.pattern.lunch # <<>> /\ gen.pattern.exclude # <<>>
    /\ \E s, t \in Created : s.id # t.id /\ s.day = t.day

\* C16: the background task of a retry whose delivery succeeds leaves the
\* retried record with status sent and creates no notification record.
C16_RetryUpdatesSameRecord ==
    [][( rt.pc = "queued" /\ rt'.pc = "done" /\ rt'.delivered = "sent" )
       => /\ notifs'[rt.notif].status = SENT
          /\ Len(notifs') = Len(notifs)]_vars

\* C17: the transport is not called again for a message whose last delivery
\* attempt failed, unless by the retry request.
C17_FailedAttemptIsTerminal ==
    [][( task.failed /\ task'.attempts > task.attempts )
       => ( rt.pc = "queued" /\ rt'.pc = "done" )]_vars

\* C20: a run of the reminder scan hands to the reminder dispatch every
\* appointment that is confirmed and whose slot starts in the window, and no
\* other appointment.
C20_ScanRemindsTheDue ==
    [][( job.pc = "idle" /\ job'.pc = "done" )
       => LET eligible == {a \in job'.due : appts[a].status = CONFIRMED}
          IN /\ eligible \subseteq reminded'
             /\ (reminded' \ reminded) \subseteq eligible]_vars


\* C21: a run of the weekly slot reset removes no slot that is booked and no
\* slot whose week is the week of the run or a later week.
C21_ResetKeepsBookedAndCurrent ==
    [][( cal.pc = "idle" /\ cal'.pc = "done" /\ cal'.check \in Clock )
       => \A s \in store :
            (s.is_booked \/ s.week >= cal'.check.week) => s \in store']_vars

\* C22: when the write of one record of the batch of the auto-completion job
\* fails, the records of the batch whose write did not fail are completed all
\* the same and stay completed.
C22_BatchSurvivesOneFailure ==
    [][\A w \in Workers :
         ( pc[w] = "complete_commit" /\ pc'[w] = "done" /\ req'[w].data.failed # {} )
            => \A a \in req'[w].data.selected \ req'[w].data.failed :
                 appts'[a].status = COMPLETED]_vars

\* The ids of the rows of the appointments table.
StoredIds == {a \in DOMAIN appts : Stored(a)}

\* C23: no step removes an appointment: the set of the ids of the stored
\* appointments never shrinks.
C23_AppointmentsNeverRemoved == [][StoredIds \subseteq StoredIds']_vars

C25_RecordBeforeTransport ==
    [][( sending.pc = "transport" /\ sending'.pc # "transport" )
       => \E n \in DOMAIN notifs :
            /\ notifs[n].appt = sending.appt
            /\ notifs[n].status = PENDING]_vars

\* C26: the status of a notification record changes only from pending, to
\* sent or to failed, and every delivery attempt of the e-mail task for a
\* record finds the record pending and leaves it sent or failed.
C26_StatusChangesOnceFromPending ==
    [][/\ \A n \in DOMAIN notifs :
            notifs'[n].status # notifs[n].status
               => notifs[n].status = PENDING /\ notifs'[n].status \in {SENT, FAILED}
       /\ ( task'.attempts > task.attempts /\ task.notif \in DOMAIN notifs )
            => /\ notifs[task.notif].status = PENDING
               /\ notifs'[task.notif].status \in {SENT, FAILED}]_vars

\* C27: every stored slot starts before it ends.
C27_StoredSlotsOrdered == \A s \in store : s.start < s.end

\* C28: the slot that a stored appointment references exists.
C28_ReferencedSlotExists == \A a \in StoredIds : Exists(appts[a].slot)

\* C29: no two stored slots of the same teacher, day and week overlap.
C29_NoOverlappingSlots ==
    \A s, t \in store :
        ( s.id # t.id /\ s.teacher = t.teacher /\ s.day = t.day /\ s.week = t.week )
           => ~(s.start < t.end /\ s.end > t.start)

\* C30: the while loop of the pattern-based bulk creation terminates: a
\* request that is in the loop of a day eventually leaves it.
C30_GenerationLoopTerminates == (cal.pc = "bulk_slot") ~> (cal.pc # "bulk_slot")

\* A pass of the while loop that stays in the loop changes the state of the
\* request. Where this fails the next pass starts from the state the last
\* one started from, and so does every later pass.
PassChangesState == cal.pc = "bulk_slot" => ~ENABLED (bulk_slot /\ UNCHANGED vars)
====
